---- MODULE Spec2Model ----
(***************************************************************************)
(* State-machine model of src/src/components/ContextMenu.tsx: the menu of  *)
(* one conversation node and the asynchronous flows its handlers start     *)
(* (selectBranch, handleSend with editMessage / respondToMessage,          *)
(* startSubchat).  One action is one macrotask of the JavaScript event     *)
(* loop: a user event or the arrival of a response / timer, together with  *)
(* all the code that runs synchronously (and in microtasks) up to the next *)
(* suspension on chrome.runtime.sendMessage or setTimeout.                 *)
(***************************************************************************)
EXTENDS Integers, Sequences, FiniteSets, TLC

\* ------------------------------------------------------------------ bounds
\* Number of handler invocations (flows) one menu instance may start.
MaxFlows == 2

\* ------------------------------------------------------------- value sets
\* JavaScript's undefined, for an identifier-valued prop or response field.
Undefined == "undefined"

Roles == {"user", "assistant", Undefined}

MessageIds == {Undefined, "m1"}

ChildrenIdSets == {<< >>, <<"c1">>}

\* props.message of the node.
Messages == {<<"a", " ">>}

\* What the planner props.onNodeClick can return: nothing (undefined/null),
\* an array of zero steps, an array of one step.
NoPlan == [present |-> FALSE, steps |-> << >>]

Plans == {NoPlan, [present |-> TRUE, steps |-> << >>], [present |-> TRUE, steps |-> <<"s1">>]}

\* Outcomes of a chrome.runtime.sendMessage promise for a command whose
\* response carries `completed`.
Outcomes == {"completed", "notCompleted", "rejected"}

\* Outcomes of the createSubchat command: success with / without a
\* subchatId, success=false, transport rejection.
SubchatOutcomes == {"successId", "successNoId", "noSuccess", "rejected"}

\* Texts the textarea's onChange can deliver: empty, whitespace only, and
\* text with whitespace around it.
Drafts == {<< >>, <<" ">>, <<" ", "b">>}

VARIABLES
    props,       \* the props the menu was rendered with
    showInput,   \* useState(false), line 6
    inputValue,  \* useState(...), line 7
    flows        \* the handler invocations started so far, in start order

vars == <<props, showInput, inputValue, flows>>

\* ---------------------------------------------------------- pure helpers
\* Mutant of Truthy: the guard of line 92 lost.
TruthyNoGuard(id) == TRUE

\* JavaScript truthiness of an identifier string (lines 92, 151).
Truthy(id) == id # Undefined /\ id # ""

\* props.onNodeClick(props.messageId), line 94: the planner is a function
\* of the props the handlers closed over.
OnNodeClick == props.planned

\* JavaScript truthiness of the planner's result (line 95): an array is
\* truthy whatever its length; undefined and null are not.
PlanTruthy(plan) == plan.present

IsSpace(c) == c \in {" ", "\t", "\n"}

RECURSIVE TrimStart(_)
TrimStart(s) ==
    IF s = << >> THEN s
    ELSE IF IsSpace(Head(s)) THEN TrimStart(Tail(s)) ELSE s

RECURSIVE TrimEnd(_)
TrimEnd(s) ==
    IF s = << >> THEN s
    ELSE IF IsSpace(s[Len(s)]) THEN TrimEnd(SubSeq(s, 1, Len(s) - 1)) ELSE s

\* String.prototype.trim
Trim(s) == TrimEnd(TrimStart(s))

\* Mutant of ExecCompleted: any resolved response counts as success.
ExecCompletedLax(outcome) == outcome \in {"completed", "notCompleted"}

\* !execResponse.completed, line 104, as its negation: the response of a
\* settled executeSteps reports completion.
ExecCompleted(outcome) == outcome = "completed"

\* Mutant of MutationCompleted: any resolved response counts as success.
MutationCompletedLax(outcome) == outcome \in {"completed", "notCompleted"}

\* Mutant of MutationCompleted: response.completed is not looked at.
MutationCompletedAlways(outcome) == TRUE

\* !response.completed, lines 61 and 82, as its negation.
MutationCompleted(outcome) == outcome = "completed"

\* Mutant of SubchatSucceeded: response.success is not looked at.
SubchatSucceededLax(outcome) == TRUE

\* response.success, line 125.
SubchatSucceeded(outcome) == outcome \in {"successId", "successNoId"}

\* The mutator handleSend dispatches to, lines 37-41.
MutatorName == IF props.role = "user" THEN "editMessage" ELSE "respondToMessage"

\* Mutant of Blank: the draft is tested without trim().
BlankNoTrim(s) == s = << >>

\* !inputValue.trim()  (lines 33, 197): the empty string is falsy.
Blank(s) == Trim(s) = << >>

\* props.message || ''  (lines 7, 25)
MessageOrEmpty == props.message

\* The draft the input starts with (lines 7, 24-28).
InitialDraft == IF props.role = "user" THEN MessageOrEmpty ELSE << >>

\* ------------------------------------------------------------- commands
\* A message handed to chrome.runtime.sendMessage.  Fields a command does
\* not carry hold Undefined / the empty sequence / FALSE.
Command(action, id, steps, message, childrenIds, requireCompletion) ==
    [action |-> action, id |-> id, steps |-> steps, message |-> message,
     childrenIds |-> childrenIds, requireCompletion |-> requireCompletion]

\* lines 98-102
ExecuteStepsCmd(steps) == Command("executeSteps", Undefined, steps, << >>, << >>, TRUE)

\* lines 109-112
GoToTargetCmd == Command("goToTarget", props.messageId, << >>, << >>, << >>, FALSE)

\* lines 54-59
EditMessageCmd(draft) == Command("editMessage", props.messageId, << >>, draft, << >>, TRUE)

\* lines 75-80
RespondToMessageCmd(draft) ==
    Command("respondToMessage", Undefined, << >>, draft, props.childrenIds, TRUE)

\* lines 120-123
CreateSubchatCmd == Command("createSubchat", props.messageId, << >>, << >>, << >>, FALSE)

\* ---------------------------------------------------------------- flows
\* One invocation of a handler.  pc is where it is suspended; ctx is the
\* caller a running selectBranch returns to; draft is the inputValue the
\* handler's closure captured; log is what it did, in order; cmds are the
\* commands it sent; opened are the tabs it created.
NewFlow(kind, draft) ==
    [kind |-> kind, pc |-> "run", ctx |-> "none", draft |-> draft,
     log |-> << >>, cmds |-> << >>, opened |-> << >>]

Log(fl, ev) == [fl EXCEPT !.log = Append(@, ev)]

\* await chrome.runtime.sendMessage(cmd): the command leaves and the flow
\* suspends at pc until the promise settles.
Send(fl, cmd, pc) ==
    [fl EXCEPT !.log = Append(@, "send:" \o cmd.action),
               !.cmds = Append(@, cmd),
               !.pc = pc]

\* selectBranch, lines 91-102: from its call to the executeSteps send, or
\* to an early return (pc "ret").
SelectBranch(fl, ctx) ==
    LET called == Log(fl, "call:selectBranch")
    IN  IF ~Truthy(props.messageId)
        THEN [Log(called, "return:selectBranch") EXCEPT !.pc = "ret", !.ctx = ctx]
        ELSE LET planned == Log(called, "onNodeClick")
             IN  IF ~PlanTruthy(OnNodeClick)
                 THEN [Log(planned, "return:selectBranch") EXCEPT !.pc = "ret", !.ctx = ctx]
                 ELSE [Send(planned, ExecuteStepsCmd(OnNodeClick.steps), "awaitExec")
                          EXCEPT !.ctx = ctx]

\* Mutant of SendMutation: the message is read from the live input, not
\* from the inputValue the handler closed over.
SendMutationLive(fl) ==
    IF props.role = "user"
    THEN Send(fl, EditMessageCmd(inputValue), "awaitMut")
    ELSE Send(fl, RespondToMessageCmd(inputValue), "awaitMut")

\* The mutation command of editMessage (lines 54-59) or respondToMessage
\* (lines 75-80).
SendMutation(fl) ==
    IF props.role = "user"
    THEN Send(fl, EditMessageCmd(fl.draft), "awaitMut")
    ELSE Send(fl, RespondToMessageCmd(fl.draft), "awaitMut")

\* editMessage / respondToMessage from their call (lines 49-59, 70-80).
Mutator(fl) ==
    LET called == Log(fl, "call:" \o MutatorName)
    IN  IF props.hidden
        THEN LET sel == SelectBranch(called, "mutator")
             IN  IF sel.pc = "ret" THEN SendMutation(sel) ELSE sel
        ELSE SendMutation(called)

\* handleSend, lines 43-45.
Cleanup(fl) ==
    [Log(Log(fl, "clear"), "refreshNodes") EXCEPT !.pc = "done"]

\* handleSend, lines 37-45: what follows its own selectBranch.
Dispatch(fl) ==
    IF props.role \in {"user", "assistant"}
    THEN Mutator(fl)
    ELSE Cleanup(fl)

\* Mutant of Resume: the caller's continuation is never run.
ResumeLost(fl) == [fl EXCEPT !.pc = "run"]

\* A selectBranch that has returned hands control back to its caller.
Resume(fl) ==
    CASE fl.ctx = "button"     -> [fl EXCEPT !.pc = "done"]
      [] fl.ctx = "handleSend" -> Dispatch(fl)
      [] fl.ctx = "mutator"    -> SendMutation(fl)

\* Mutant of HandleSend: selectBranch is called without await, line 35.
HandleSendNoAwait(draft) ==
    LET called == Log(NewFlow("send", draft), "call:handleSend")
    IN  IF Blank(draft)
        THEN [called EXCEPT !.pc = "done"]
        ELSE Dispatch(SelectBranch(called, "handleSend"))

\* handleSend from its call (lines 32-41).
HandleSend(draft) ==
    LET called == Log(NewFlow("send", draft), "call:handleSend")
    IN  IF Blank(draft)
        THEN [called EXCEPT !.pc = "done"]
        ELSE LET sel == SelectBranch(called, "handleSend")
             IN  IF sel.pc = "ret" THEN Resume(sel) ELSE sel

\* The events fl logged after the first n.
Since(fl, n) == SubSeq(fl.log, n + 1, Len(fl.log))

Has(log, ev) == \E i \in 1..Len(log) : log[i] = ev

Count(log, ev) == Cardinality({i \in 1..Len(log) : log[i] = ev})

\* setShowInput(false); setInputValue('') ran in the step from old to new.
Cleared(old, new) == Has(Since(new, Len(old.log)), "clear")

\* ------------------------------------------------------------------ init
\* A freshly mounted menu: no handler has run; lines 6-7.
Init ==
    /\ props \in [role : Roles, hidden : BOOLEAN, messageId : MessageIds,
                  childrenIds : ChildrenIdSets, message : Messages,
                  planned : Plans]
    /\ showInput = FALSE
    /\ inputValue = (IF props.role = "user" THEN props.message ELSE << >>)
    /\ flows = << >>

\* A handler can still be started.
CanStart == Len(flows) < MaxFlows

\* Replace flow f by fl; the component state follows a cleanup fl ran.
Step(f, fl) ==
    /\ flows' = [flows EXCEPT ![f] = fl]
    /\ showInput' = (IF Cleared(flows[f], fl) THEN FALSE ELSE showInput)
    /\ inputValue' = (IF Cleared(flows[f], fl) THEN << >> ELSE inputValue)
    /\ UNCHANGED props

\* ---------------------------------------------------------- user events
\* "Edit this message" / "Respond to this message", lines 23-30, 163-170.
HandleActionClick ==
    /\ Len(props.childrenIds) > 0
    /\ inputValue' = InitialDraft
    /\ showInput' = TRUE
    /\ UNCHANGED <<props, flows>>

\* Typing in the textarea, line 182.
OnChange ==
    /\ showInput
    /\ \E text \in Drafts : inputValue' = text
    /\ UNCHANGED <<props, showInput, flows>>

\* The Select button, lines 157-162.
ClickSelect ==
    /\ CanStart
    /\ LET sel == SelectBranch(NewFlow("select", << >>), "button")
           fl  == IF sel.pc = "ret" THEN Resume(sel) ELSE sel
       IN  flows' = Append(flows, fl)
    /\ UNCHANGED <<props, showInput, inputValue>>

\* handleSend started by either trigger; a cleanup in the same task (role
\* undefined, nothing to await) resets the input at once.
StartSend ==
    LET fl == HandleSend(inputValue)
    IN  /\ flows' = Append(flows, fl)
        /\ showInput' = (IF Has(fl.log, "clear") THEN FALSE ELSE showInput)
        /\ inputValue' = (IF Has(fl.log, "clear") THEN << >> ELSE inputValue)
        /\ UNCHANGED props

\* Cmd+Enter in the textarea, lines 183-187.
KeyDownCmdEnter ==
    /\ CanStart
    /\ showInput
    /\ StartSend

\* The Send button, lines 194-200; disabled while the draft is blank.
ClickSend ==
    /\ CanStart
    /\ showInput
    /\ ~Blank(inputValue)
    /\ StartSend

\* The Start Subchat button, lines 118-123, 171-176.
ClickStartSubchat ==
    /\ CanStart
    /\ flows' = Append(flows,
           Send(Log(NewFlow("subchat", << >>), "call:startSubchat"),
                CreateSubchatCmd, "awaitCreate"))
    /\ UNCHANGED <<props, showInput, inputValue>>

\* ------------------------------------------------- responses and timers
\* The executeSteps promise settles, lines 98-115.
ExecuteStepsSettles ==
    \E f \in 1..Len(flows), outcome \in Outcomes :
        /\ flows[f].pc = "awaitExec"
        /\ LET got == Log(flows[f], "executeSteps:" \o outcome)
           IN  IF outcome # "rejected" /\ ExecCompleted(outcome)
               THEN Step(f, Send(Log(got, "onRefresh"), GoToTargetCmd, "awaitGoto"))
               ELSE Step(f, Resume(Log(got, "return:selectBranch")))

\* The goToTarget promise settles, lines 109-115.
GoToTargetSettles ==
    \E f \in 1..Len(flows), outcome \in {"resolved", "rejected"} :
        /\ flows[f].pc = "awaitGoto"
        /\ LET got == Log(flows[f], "goToTarget:" \o outcome)
           IN  Step(f, Resume(Log(got, "return:selectBranch")))

\* The editMessage / respondToMessage promise settles, lines 54-66, 75-87.
MutationSettles ==
    \E f \in 1..Len(flows), outcome \in Outcomes :
        /\ flows[f].pc = "awaitMut"
        /\ LET got == Log(flows[f], MutatorName \o ":" \o outcome)
           IN  IF outcome = "rejected"
               THEN Step(f, [Log(got, "uncaught") EXCEPT !.pc = "threw"])
               ELSE IF ~MutationCompleted(outcome)
               THEN Step(f, Cleanup(Log(got, "return:" \o MutatorName)))
               ELSE Step(f, [got EXCEPT !.pc = "settle"])

\* The 2000 ms timer fires, lines 66-67, 87-88, then lines 43-45.
SettleTimerFires ==
    \E f \in 1..Len(flows) :
        /\ flows[f].pc = "settle"
        /\ Step(f, Cleanup(Log(Log(Log(flows[f], "timer"), "refreshNodes"),
                                "return:" \o MutatorName)))

\* The createSubchat promise settles, lines 120-133.
CreateSubchatSettles ==
    \E f \in 1..Len(flows), outcome \in SubchatOutcomes :
        /\ flows[f].pc = "awaitCreate"
        /\ LET got == Log(flows[f], "createSubchat:" \o outcome)
               id  == IF outcome = "successId" THEN "sc1" ELSE Undefined
           IN  IF outcome # "rejected" /\ SubchatSucceeded(outcome)
               THEN Step(f, [Log(got, "tabs.create") EXCEPT
                                !.opened = Append(@, [parent |-> props.messageId,
                                                      subchat |-> id]),
                                !.pc = "done"])
               ELSE Step(f, [got EXCEPT !.pc = "done"])

Next ==
    \/ HandleActionClick
    \/ OnChange
    \/ ClickSelect
    \/ ClickSend
    \/ KeyDownCmdEnter
    \/ ClickStartSubchat
    \/ ExecuteStepsSettles
    \/ GoToTargetSettles
    \/ MutationSettles
    \/ SettleTimerFires
    \/ CreateSubchatSettles

Spec == Init /\ [][Next]_vars

\* ============================================================== claims
\* ------------------------------------------------- reading a flow's log
MutationSends == {"send:editMessage", "send:respondToMessage"}

ExecFailures == {"executeSteps:notCompleted", "executeSteps:rejected"}

\* The positions at which a selectBranch invocation starts.
SelCalls(log) == {i \in 1..Len(log) : log[i] = "call:selectBranch"}

\* Where the invocation started at i returned, or the end of the log while
\* it is still suspended.
SelEnd(log, i) ==
    IF \E j \in (i + 1)..Len(log) : log[j] = "return:selectBranch"
    THEN CHOOSE j \in (i + 1)..Len(log) :
            /\ log[j] = "return:selectBranch"
            /\ \A k \in (i + 1)..(j - 1) : log[k] # "return:selectBranch"
    ELSE Len(log)

\* What the selectBranch invocation started at i did.
SelSegment(log, i) == SubSeq(log, i, SelEnd(log, i))

\* The draft consists of whitespace only (or of nothing).
AllWhitespace(s) == \A i \in 1..Len(s) : s[i] \in {" ", "\t", "\n"}

\* The flows waiting for the orchestrator to answer a command.
Outstanding ==
    {f \in 1..Len(flows) :
        flows[f].pc \in {"awaitExec", "awaitGoto", "awaitMut", "awaitCreate"}}

\* Position i of the log lies inside the mutator's invocation.
InMutator(log, i) ==
    /\ \E c \in 1..(i - 1) : log[c] = "call:" \o MutatorName
    /\ \A r \in 1..(i - 1) : log[r] # "return:" \o MutatorName

\* C1 (as claimed): once an executeSteps of a handleSend flow resolved with
\* completed=false or was rejected, that flow sends no editMessage or
\* respondToMessage command.
C1_NoMutationAfterFailedSelection ==
    \A f \in 1..Len(flows) :
        LET log == flows[f].log
        IN  \A i, j \in 1..Len(log) :
                (i < j /\ log[i] \in ExecFailures) => log[j] \notin MutationSends

\* C2: a selectBranch invocation whose planner returned a non-empty plan
\* sends exactly one executeSteps; goToTarget and the onRefresh before it
\* come only after that executeSteps resolved with completed=true, and
\* never after it resolved with completed=false or was rejected.
C2_ExecuteStepsGatesGoToTarget ==
    \A f \in 1..Len(flows) :
        \A i \in SelCalls(flows[f].log) :
            LET seg == SelSegment(flows[f].log, i)
            IN  (Has(seg, "onNodeClick") /\ props.planned.present
                                         /\ props.planned.steps # << >>) =>
                    /\ Count(seg, "send:executeSteps") = 1
                    /\ Count(seg, "send:goToTarget") <= 1
                    /\ \A g \in 1..Len(seg) :
                          seg[g] \in {"onRefresh", "send:goToTarget"} =>
                              \E x, e \in 1..(g - 1) :
                                  /\ x < e
                                  /\ seg[x] = "send:executeSteps"
                                  /\ seg[e] = "executeSteps:completed"
                    /\ \A g \in 1..Len(seg) :
                          seg[g] = "send:goToTarget" => seg[g - 1] = "onRefresh"
                    /\ (\E e \in 1..Len(seg) : seg[e] \in ExecFailures) =>
                          (~Has(seg, "send:goToTarget") /\ ~Has(seg, "onRefresh"))

\* C2 witness: a selectBranch with a one-step plan has sent goToTarget, and
\* another one has seen its executeSteps fail.
C2_Witness ==
    /\ props.planned.steps # << >>
    /\ \E f, g \in 1..Len(flows) :
          /\ Has(flows[f].log, "send:goToTarget")
          /\ \E e \in 1..Len(flows[g].log) : flows[g].log[e] \in ExecFailures

\* C3 (as claimed): when a handleSend flow sends its mutation command,
\* selectBranch has been called exactly once in that flow.
C3_SelectBranchOnceBeforeMutation ==
    \A f \in 1..Len(flows) :
        LET log == flows[f].log
        IN  \A m \in 1..Len(log) :
                log[m] \in MutationSends =>
                    Count(SubSeq(log, 1, m), "call:selectBranch") = 1

\* C4 (as claimed): at most one command of the menu is outstanding.
C4_AtMostOneOutstanding == Cardinality(Outstanding) <= 1

\* C5 (as claimed): no handler ends with an uncaught error.
C5_NoUncaughtError == \A f \in 1..Len(flows) : flows[f].pc # "threw"

\* C6 (as claimed): a handleSend that passed the blank-draft check and has
\* ended, ended by clearing the pending edit state and then calling
\* refreshNodes, whatever the mutation's outcome.
C6_SendEndsWithCleanup ==
    \A f \in 1..Len(flows) :
        LET log == flows[f].log
        IN  (/\ flows[f].kind = "send"
             /\ ~AllWhitespace(flows[f].draft)
             /\ flows[f].pc \in {"done", "threw"}) =>
                /\ Len(log) >= 2
                /\ log[Len(log) - 1] = "clear"
                /\ log[Len(log)] = "refreshNodes"

\* C7 (as claimed): when the planner returns no plan or a plan of zero
\* steps, selectBranch sends no command and fires no onRefresh, on every
\* invocation.
C7_EmptyPlanSendsNothing ==
    props.planned.steps = << >> =>
        \A f \in 1..Len(flows) :
            \A i \in SelCalls(flows[f].log) :
                LET seg == SelSegment(flows[f].log, i)
                IN  /\ ~Has(seg, "send:executeSteps")
                    /\ ~Has(seg, "send:goToTarget")
                    /\ ~Has(seg, "onRefresh")

\* C8: with props.messageId absent, every selectBranch invocation returns
\* at once: the planner is not consulted, no command is sent and no
\* onRefresh fires.
C8_AbsentNodeIsNoOp ==
    props.messageId = Undefined =>
        \A f \in 1..Len(flows) :
            LET log == flows[f].log
            IN  /\ \A i \in SelCalls(log) :
                      i < Len(log) /\ log[i + 1] = "return:selectBranch"
                /\ ~Has(log, "onNodeClick")
                /\ ~Has(log, "send:executeSteps")
                /\ ~Has(log, "send:goToTarget")
                /\ ~Has(log, "onRefresh")

\* C8 witness: selectBranch ran twice (button and handleSend) for a node
\* without messageId.
C8_Witness ==
    /\ props.messageId = Undefined
    /\ \E f, g \in 1..Len(flows) :
          /\ flows[f].kind = "select" /\ Has(flows[f].log, "return:selectBranch")
          /\ flows[g].kind = "send" /\ Has(flows[g].log, "return:selectBranch")

\* C9: inside editMessage / respondToMessage, refreshNodes is called only
\* right after the settle timer, which follows a response with
\* completed=true; after a response with completed=false the mutator does
\* not call it.
C9_MutatorRefreshOnlyAfterCompletion ==
    \A f \in 1..Len(flows) :
        LET log == flows[f].log
        IN  \A i \in 1..Len(log) :
                (log[i] = "refreshNodes" /\ InMutator(log, i)) =>
                    /\ i >= 3
                    /\ log[i - 1] = "timer"
                    /\ log[i - 2] \in {"editMessage:completed",
                                       "respondToMessage:completed"}
                    /\ ~Has(log, "editMessage:notCompleted")
                    /\ ~Has(log, "respondToMessage:notCompleted")

\* C9 witness: one mutator returned after completed=false, another one
\* refreshed after its timer.
C9_Witness ==
    \E f, g \in 1..Len(flows) :
        /\ \/ Has(flows[f].log, "editMessage:notCompleted")
           \/ Has(flows[f].log, "respondToMessage:notCompleted")
        /\ flows[f].pc = "done"
        /\ Has(flows[g].log, "timer")

\* C10: a handleSend started with an empty or whitespace-only draft ends
\* at once: no planner call, no command, no refresh, and showInput and
\* inputValue keep their values.
C10_BlankDraftIsNoOp ==
    [][(/\ Len(flows') = Len(flows) + 1
        /\ flows'[Len(flows')].kind = "send"
        /\ AllWhitespace(inputValue)) =>
           /\ flows'[Len(flows')].log = <<"call:handleSend">>
           /\ flows'[Len(flows')].cmds = << >>
           /\ flows'[Len(flows')].pc = "done"
           /\ showInput' = showInput
           /\ inputValue' = inputValue]_vars

\* C10 witness: handleSend ran on a whitespace-only draft and the input is
\* still open with that draft.
C10_Witness ==
    \E f \in 1..Len(flows) :
        /\ flows[f].kind = "send"
        /\ flows[f].draft = <<" ">>
        /\ flows[f].pc = "done"
        /\ showInput
        /\ inputValue = <<" ">>

\* What a handleSend flow lets the outside see: the commands it sends and
\* the callbacks it invokes (the settle timer among them).
Observable(ev) ==
    ev \in {"send:executeSteps", "send:goToTarget", "send:editMessage",
            "send:respondToMessage", "send:createSubchat", "onRefresh",
            "timer", "refreshNodes", "clear", "tabs.create"}

\* A response event that reports a failure.
FailureEvent(ev) ==
    ev \in ExecFailures \cup {"goToTarget:rejected",
                              "editMessage:notCompleted", "editMessage:rejected",
                              "respondToMessage:notCompleted",
                              "respondToMessage:rejected"}

\* C11 (as claimed): a finished handleSend with a non-blank draft, a
\* non-empty plan, role user or assistant and only successful responses
\* showed exactly: executeSteps, onRefresh, goToTarget, the mutation
\* command, the settle timer, refreshNodes, clear, refreshNodes.
C11_SuccessfulSendOrder ==
    \A f \in 1..Len(flows) :
        (/\ flows[f].kind = "send"
         /\ ~AllWhitespace(flows[f].draft)
         /\ props.role \in {"user", "assistant"}
         /\ props.messageId # Undefined
         /\ props.planned.steps # << >>
         /\ flows[f].pc = "done"
         /\ \A i \in 1..Len(flows[f].log) : ~FailureEvent(flows[f].log[i])) =>
            SelectSeq(flows[f].log, Observable) =
                <<"send:executeSteps", "onRefresh", "send:goToTarget",
                  IF props.role = "user" THEN "send:editMessage"
                                         ELSE "send:respondToMessage",
                  "timer", "refreshNodes", "clear", "refreshNodes">>

\* C12: a startSubchat whose createSubchat resolved with success=false or
\* was rejected creates no tab, sends no further command and ends without
\* an uncaught error.
C12_FailedSubchatOpensNothing ==
    \A f \in 1..Len(flows) :
        (\/ Has(flows[f].log, "createSubchat:noSuccess")
         \/ Has(flows[f].log, "createSubchat:rejected")) =>
            /\ flows[f].opened = << >>
            /\ ~Has(flows[f].log, "tabs.create")
            /\ Len(flows[f].cmds) = 1
            /\ flows[f].pc = "done"

\* C12 witness: one startSubchat got success=false, another was rejected.
C12_Witness ==
    \E f, g \in 1..Len(flows) :
        /\ Has(flows[f].log, "createSubchat:noSuccess")
        /\ Has(flows[g].log, "createSubchat:rejected")

\* C13: when a flow sends its mutation command, every selectBranch it
\* called before has returned and every executeSteps it sent before has
\* been answered.
C13_SelectionResolvedBeforeMutation ==
    \A f \in 1..Len(flows) :
        LET log == flows[f].log
        IN  \A m \in 1..Len(log) :
                log[m] \in MutationSends =>
                    LET before == SubSeq(log, 1, m)
                    IN  /\ Count(before, "call:selectBranch")
                              = Count(before, "return:selectBranch")
                        /\ Count(before, "send:executeSteps")
                              = Count(before, "executeSteps:completed")
                                + Count(before, "executeSteps:notCompleted")
                                + Count(before, "executeSteps:rejected")
                        /\ Count(before, "send:goToTarget")
                              = Count(before, "goToTarget:resolved")
                                + Count(before, "goToTarget:rejected")

\* C13 witness: a hidden node's flow sent its mutation command after two
\* selections that each waited for executeSteps.
C13_Witness ==
    \E f \in 1..Len(flows) :
        /\ Count(flows[f].log, "executeSteps:completed") = 2
        /\ \E m \in 1..Len(flows[f].log) : flows[f].log[m] \in MutationSends

MutationFailures ==
    {"editMessage:notCompleted", "editMessage:rejected",
     "respondToMessage:notCompleted", "respondToMessage:rejected"}

MutationRejections == {"editMessage:rejected", "respondToMessage:rejected"}

RefreshEvents == {"onRefresh", "refreshNodes"}

\* C14 (as claimed): after a failure in a handleSend flow, neither
\* onRefresh nor refreshNodes is invoked in that flow.
C14_NoRefreshAfterFailure ==
    \A f \in 1..Len(flows) :
        LET log == flows[f].log
        IN  flows[f].kind = "send" =>
                \A i, j \in 1..Len(log) :
                    (i < j /\ FailureEvent(log[i])) => log[j] \notin RefreshEvents

\* C14 (amended): the operation that detected a failure refreshes nothing:
\* a selectBranch fires no onRefresh after its executeSteps or goToTarget
\* failed, a mutator calls no refreshNodes after its command failed, and
\* after a rejected mutation command no refresh fires at all; after a
\* mutation with completed=false the only refresh is the final
\* refreshNodes of handleSend.
C14_DetectorDoesNotRefresh ==
    \A f \in 1..Len(flows) :
        LET log == flows[f].log
        IN  /\ \A c \in SelCalls(log) :
                  LET seg == SelSegment(log, c)
                  IN  \A i, j \in 1..Len(seg) :
                          (i < j /\ FailureEvent(seg[i])) => seg[j] # "onRefresh"
            /\ \A i, j \in 1..Len(log) :
                  (i < j /\ log[i] \in MutationFailures) =>
                      /\ log[j] # "onRefresh"
                      /\ log[j] # "timer"
                      /\ log[j] = "refreshNodes" =>
                            (~InMutator(log, j) /\ log[j - 1] = "clear")
                      /\ log[i] \in MutationRejections => log[j] \notin RefreshEvents
            /\ \A i \in 1..Len(log) :
                  (log[i] \in MutationFailures \ MutationRejections
                     /\ flows[f].pc = "done") =>
                      Count(SubSeq(log, i, Len(log)), "refreshNodes") = 1

\* C14 witness: a flow whose mutation got completed=false has ended with
\* the final refreshNodes, and a flow went on after a failed executeSteps.
C14_Witness ==
    \E f, g \in 1..Len(flows) :
        /\ \E i \in 1..Len(flows[f].log) :
              flows[f].log[i] \in MutationFailures \ MutationRejections
        /\ flows[f].pc = "done"
        /\ \E i \in 1..Len(flows[g].log) : flows[g].log[i] \in ExecFailures
        /\ \E m \in 1..Len(flows[g].log) : flows[g].log[m] \in MutationSends

\* C15 (as claimed): selectBranch does not wait for the answer to
\* goToTarget: once the command is sent, selectBranch has returned.
C15_GoToTargetNotAwaited ==
    \A f \in 1..Len(flows) :
        LET log == flows[f].log
        IN  \A g \in 1..Len(log) :
                log[g] = "send:goToTarget" =>
                    (g < Len(log) /\ log[g + 1] = "return:selectBranch")

\* C16 (as claimed): a handleSend whose own selectBranch has returned has
\* called exactly one mutator: editMessage for role user, respondToMessage
\* otherwise.
C16_ExactlyOneMutator ==
    \A f \in 1..Len(flows) :
        LET log == flows[f].log
        IN  (flows[f].kind = "send" /\ Has(log, "return:selectBranch")) =>
                /\ Count(log, "call:editMessage")
                     + Count(log, "call:respondToMessage") = 1
                /\ Has(log, "call:editMessage") <=> props.role = "user"

\* C17 (as claimed): a startSubchat creates at most one tab, only for a
\* response with success=true and a subchatId, and the tab's URL carries
\* the parent messageId and that subchatId.
C17_TabOnlyWithSubchatId ==
    \A f \in 1..Len(flows) :
        /\ Len(flows[f].opened) <= 1
        /\ \A o \in 1..Len(flows[f].opened) :
              /\ Has(flows[f].log, "createSubchat:successId")
              /\ flows[f].opened[o].subchat # Undefined
              /\ flows[f].opened[o].parent = props.messageId

\* The orchestrator answers every command (or the transport rejects it) and
\* the browser fires every timer: each kind of pending answer is delivered.
FairSpec ==
    /\ Spec
    /\ WF_vars(ExecuteStepsSettles)
    /\ WF_vars(GoToTargetSettles)
    /\ WF_vars(MutationSettles)
    /\ WF_vars(SettleTimerFires)
    /\ WF_vars(CreateSubchatSettles)

\* The handler invocation f has settled (returned, or thrown).
Finished(f) == Len(flows) >= f /\ flows[f].pc \in {"done", "threw"}

\* Some handleSend invocation has started and not ended.
SendInFlight ==
    \E f \in 1..Len(flows) : flows[f].kind = "send" /\ ~Finished(f)

\* The events with which a flow suspended at pc can go on.
Awaited(pc) ==
    CASE pc = "awaitExec"   -> {"executeSteps:completed", "executeSteps:notCompleted",
                                "executeSteps:rejected"}
      [] pc = "awaitGoto"   -> {"goToTarget:resolved", "goToTarget:rejected"}
      [] pc = "awaitMut"    -> {MutatorName \o ":completed",
                                MutatorName \o ":notCompleted",
                                MutatorName \o ":rejected"}
      [] pc = "settle"      -> {"timer"}
      [] pc = "awaitCreate" -> {"createSubchat:successId", "createSubchat:successNoId",
                                "createSubchat:noSuccess", "createSubchat:rejected"}
      [] OTHER              -> {}

\* C18: when every command is answered and every timer fires, each
\* handleSend invocation eventually ends (whenever one is in flight, a
\* moment comes at which none is); and a suspended flow does nothing
\* (no command, no refresh, no clearing) until the answer or timer it waits
\* for arrives.
C18_SendEndsAndWaits ==
    /\ SendInFlight ~> ~SendInFlight
    /\ [][\A f \in 1..Len(flows) :
              flows'[f] # flows[f] =>
                  /\ Len(flows'[f].log) > Len(flows[f].log)
                  /\ SubSeq(flows'[f].log, 1, Len(flows[f].log)) = flows[f].log
                  /\ flows'[f].log[Len(flows[f].log) + 1] \in Awaited(flows[f].pc)]_vars

\* C18 witness: a handleSend ended after waiting for executeSteps,
\* goToTarget, its mutation command and the settle timer.
C18_Witness ==
    \E f \in 1..Len(flows) :
        /\ flows[f].kind = "send"
        /\ Finished(f)
        /\ Has(flows[f].log, "goToTarget:resolved")
        /\ Has(flows[f].log, "timer")

\* The mutation commands flow f has sent.
MutationCmds(f) ==
    {c \in 1..Len(flows[f].cmds) :
        flows[f].cmds[c].action \in {"editMessage", "respondToMessage"}}

\* C19 (as claimed): while a handleSend that has sent its mutation command
\* is still in flight, no other handleSend sends a mutation command.
C19_OneMutationPerDraft ==
    \A f, g \in 1..Len(flows) :
        (/\ f # g
         /\ MutationCmds(f) # {}
         /\ flows[f].pc \notin {"done", "threw"}) => MutationCmds(g) = {}

\* C20: every editMessage / respondToMessage command carries a non-blank
\* message equal to the draft its handleSend was triggered with, which is
\* the inputValue of that moment and never changes afterwards;
\* editMessage carries props.messageId, respondToMessage carries
\* props.childrenIds, and both carry requireCompletion=true.
C20_MutationCarriesTriggerDraft ==
    /\ [](\A f \in 1..Len(flows) :
            \A c \in MutationCmds(f) :
                LET cmd == flows[f].cmds[c]
                IN  /\ ~AllWhitespace(cmd.message)
                    /\ cmd.message = flows[f].draft
                    /\ cmd.requireCompletion
                    /\ cmd.action = "editMessage" =>
                          (props.role = "user" /\ cmd.id = props.messageId)
                    /\ cmd.action = "respondToMessage" =>
                          (props.role = "assistant"
                             /\ cmd.childrenIds = props.childrenIds))
    /\ [][/\ \A f \in 1..Len(flows) : flows'[f].draft = flows[f].draft
          /\ (Len(flows') > Len(flows) /\ flows'[Len(flows')].kind = "send") =>
                flows'[Len(flows')].draft = inputValue]_vars

\* C20 witness: a mutation command was sent after executeSteps and
\* goToTarget were awaited, and the textarea, still open, now holds
\* another text than the command's message.
C20_Witness ==
    \E f \in 1..Len(flows) :
        /\ MutationCmds(f) # {}
        /\ Has(flows[f].log, "goToTarget:resolved")
        /\ showInput
        /\ \A c \in MutationCmds(f) : flows[f].cmds[c].message # inputValue

====
